---- MODULE Spec2Model ----
(***************************************************************************)
(* Model of OlivaTransfer/app.py: class RSSapi, an RSS fetcher and parser  *)
(* that keeps one "latest guid" cursor per platform.                       *)
(*                                                                         *)
(* Python values are modelled as tagged records:                           *)
(*   None            [t |-> "None"]                                        *)
(*   str             [t |-> "str", s |-> <<characters>>]                   *)
(*   dict            [t |-> "dict", d |-> <<  <<key, value>>, ... >>]      *)
(*                   (a sequence, because a dict iterates in insertion     *)
(*                   order)                                                *)
(*   list            [t |-> "list", l |-> <<...>>]                         *)
(*   Element         [t |-> "Element", text |-> str or None]               *)
(* A call ends as [kind |-> "return", val |-> v] or as                     *)
(* [kind |-> "raise", exc |-> name].                                       *)
(***************************************************************************)
EXTENDS Integers, Sequences, FiniteSets, TLC

\* ------------------------------------------------------------------ bounds
\* Longest item list of a feed document drawn as a response body (SpecParse).
MaxItems == 1
\* Number of distinct items, with guids g1..gMaxGuid, in those documents.
MaxGuid == 2
\* Most items a feed publishes in the polling-cycle specification (SpecCycle).
MaxFeed == 3

\* ------------------------------------------------------------ Python values
NoneV == [t |-> "None"]
Str(s) == [t |-> "str", s |-> s]
Dict(d) == [t |-> "dict", d |-> d]
List(l) == [t |-> "list", l |-> l]
EmptyStr == Str(<<>>)
EmptyDict == Dict(<<>>)

IsNone(x) == x.t = "None"
IsStr(x) == x.t = "str"

Return(v) == [kind |-> "return", val |-> v]
Raise(e) == [kind |-> "raise", exc |-> e]

\* dict operations on the pair sequence d of a dict
Keys(d) == {d[i][1] : i \in DOMAIN d}
HasKey(d, k) == \E i \in DOMAIN d : d[i][1] = k
\* d[k] for a key that is present
GetItem(d, k) == d[CHOOSE i \in DOMAIN d : d[i][1] = k][2]
\* d[k] = v : overwrite in place, or insert at the end
SetItem(d, k, v) ==
    IF HasKey(d, k)
    THEN [i \in DOMAIN d |-> IF d[i][1] = k THEN <<k, v>> ELSE d[i]]
    ELSE Append(d, <<k, v>>)

\* ------------------------------------------------------------- feed payloads
Platforms == {"feedA", "feedB"}
UrlOf == [p \in Platforms |-> IF p = "feedA" THEN "http://a/rss" ELSE "http://b/rss"]
Urls == {UrlOf[p] : p \in Platforms}

Fields == {"title", "link", "guid", "pubDate", "description"}
Initial == [f \in Fields |->
              CASE f = "title" -> "t" [] f = "link" -> "l" [] f = "guid" -> "g"
                [] f = "pubDate" -> "p" [] f = "description" -> "d"]

Absent == [t |-> "Absent"]
\* text of field f of the n-th published item, e.g. guid of item 2 is "g2"
Text(f, n) == Str(<<Initial[f], ToString(n)>>)
\* an <item> node: for each tag, the text of its child node or Absent
XmlItem(n) == [f \in Fields |-> Text(f, n)]
Without(item, f) == [item EXCEPT ![f] = Absent]

ItemPool ==
    {XmlItem(n) : n \in 1..MaxGuid} \cup {Without(XmlItem(1), f) : f \in Fields}

\* a response body: XML that does not parse, or a document with its <item>
\* nodes in document order
Malformed == [wf |-> FALSE]
WellFormed(items) == [wf |-> TRUE, items |-> items]
Docs ==
    {Malformed}
      \cup {WellFormed(s) : s \in UNION {[1..n -> ItemPool] : n \in 0..MaxItems}}

\* newest-first feed after n publications: items n, n-1, ..., 1
ChainDoc(n) == WellFormed([i \in 1..n |-> XmlItem(n + 1 - i)])
\* the bodies served in the specification of the whole interface (Spec)
ApiDocs == {Malformed, ChainDoc(0), ChainDoc(1)}


\* ------------------------------------------------------------- HTTP boundary
\* What requests.request does for one URL: it raises (timeout, DNS failure,
\* connection refused) or returns a response with a status code and a body.
ErrorBody == Malformed
StatusCodes == {200, 503}
TransportError == [kind |-> "raise", exc |-> "RequestException"]
Response(code, text) == [kind |-> "return", status_code |-> code, text |-> text]
\* the outcomes of a request whose successful answers carry a body of D
Responses(D) ==
    {TransportError}
      \cup {Response(200, d) : d \in D}
      \cup {Response(c, ErrorBody) : c \in StatusCodes \ {200}}

\* _request(url): the outcome of the one GET, given what the network does
\* (net maps each URL to the outcome of a request made during this call).
\* No retry, no exception handling.
_request(net, url) == net[url]

\* The loop of fetch from position i of the pair sequence src, with tmp_rss
\* and the URLs requested so far.  Result: the call's outcome so far
\* (exc = "" while no exception was raised), tmp_rss, and the requests made.
RECURSIVE FetchLoop(_, _, _, _, _)
FetchLoop(src, i, tmp_rss, reqs, net) ==
    IF i > Len(src)
    THEN [exc |-> "", tmp_rss |-> tmp_rss, reqs |-> reqs]
    ELSE LET platform == src[i][1]
             url == src[i][2]
         IN  IF url # ""
             THEN LET response == _request(net, url)
                      reqs2 == Append(reqs, url)
                  IN  IF response.kind = "raise"
                      THEN [exc |-> response.exc, tmp_rss |-> tmp_rss, reqs |-> reqs2]
                      ELSE IF response.status_code = 200
                           THEN FetchLoop(src, i + 1,
                                          SetItem(tmp_rss, platform, response.text),
                                          reqs2, net)
                           ELSE FetchLoop(src, i + 1, tmp_rss, reqs2, net)
             ELSE FetchLoop(src, i + 1, tmp_rss, reqs, net)

\* A variant of fetch without the early return of lines 46-47: an absent
\* mapping then fails at rss_source.items() and an empty one yields {}.
fetchUnguarded(self_rss_source, self_data_raw, arg, net) ==
    LET rss_source == IF IsNone(arg) THEN self_rss_source ELSE arg
    IN  IF IsNone(rss_source)
        THEN [out |-> Raise("AttributeError"), data_raw |-> self_data_raw, reqs |-> <<>>]
        ELSE LET r == FetchLoop(rss_source.d, 1, <<>>, <<>>, net)
             IN  IF r.exc # ""
                 THEN [out |-> Raise(r.exc), data_raw |-> self_data_raw, reqs |-> r.reqs]
                 ELSE [out |-> Return(Dict(r.tmp_rss)), data_raw |-> Dict(r.tmp_rss),
                       reqs |-> r.reqs]

\* fetch(rss_source=arg) on an object whose fields are self_rss_source and
\* self_data_raw.  Result: the call's outcome, the new data_raw, the requests.
fetch(self_rss_source, self_data_raw, arg, net) ==
    LET rss_source == IF IsNone(arg) THEN self_rss_source ELSE arg
    IN  IF IsNone(rss_source) \/ Len(rss_source.d) = 0
        THEN [out |-> Return(NoneV), data_raw |-> self_data_raw, reqs |-> <<>>]
        ELSE LET r == FetchLoop(rss_source.d, 1, <<>>, <<>>, net)
             IN  IF r.exc # ""
                 THEN [out |-> Raise(r.exc), data_raw |-> self_data_raw, reqs |-> r.reqs]
                 ELSE [out |-> Return(Dict(r.tmp_rss)), data_raw |-> Dict(r.tmp_rss),
                       reqs |-> r.reqs]

\* ------------------------------------------------------------------- parse
\* A variant of the lookup that reads the entry with self.guids.get(platform)
CallGuidsGet(g, platform) ==
    Return(IF HasKey(g, platform) THEN GetItem(g, platform) ELSE NoneV)

\* self.guids(platform): guids is a dict and a dict is not callable, so the
\* call raises TypeError whatever the dict holds.
CallGuids(g, platform) == Raise("TypeError")

\* ET.fromstring(raw): ParseError on XML that is not well formed
fromstring(raw) == IF raw.wf THEN Return(raw) ELSE Raise("ParseError")
\* root.findall('.//item'): the item nodes at any depth, in document order
findall(root) == root.items
\* item.find(tag): the child Element, or None
find(item, tag) ==
    IF item[tag].t = "Absent" THEN NoneV ELSE [t |-> "Element", text |-> item[tag]]

\* a occurs in b as a contiguous run of characters
IsSubstring(a, b) ==
    \E k \in 0..(Len(b) - Len(a)) : SubSeq(b, k + 1, k + Len(a)) = a

\* Python's `x in c` for c a str or None: a str on the right demands a str
\* on the left, None is not iterable.
In(x, c) ==
    IF IsStr(c) /\ IsStr(x)
    THEN Return(IsSubstring(x.s, c.s))
    ELSE Raise("TypeError")

\* item.find(tag).text if item.find(tag) is not None else ''
TextOrEmpty(item, tag) ==
    IF ~IsNone(find(item, tag)) THEN find(item, tag).text ELSE EmptyStr

\* the record appended to items for one <item>
Extract(item) ==
    [title |-> TextOrEmpty(item, "title"),
     link |-> TextOrEmpty(item, "link"),
     guid |-> TextOrEmpty(item, "guid"),
     pubDate |-> TextOrEmpty(item, "pubDate"),
     description |-> TextOrEmpty(item, "description")]

\* The inner loop of parse over the <item> nodes from position j, with cur
\* the value of self.guids[platform] and items the records appended so far.
RECURSIVE ItemLoop(_, _, _, _)
ItemLoop(nodes, j, cur, items) ==
    IF j > Len(nodes)
    THEN [exc |-> "", cur |-> cur, items |-> items]
    ELSE LET item == nodes[j]
             seen == In(find(item, "guid"), cur)
         IN  IF seen.kind = "raise"
             THEN [exc |-> seen.exc, cur |-> cur, items |-> items]
             ELSE IF seen.val
                  THEN ItemLoop(nodes, j + 1, cur, items)
                  ELSE ItemLoop(nodes, j + 1, Extract(item).guid,
                                Append(items, Extract(item)))

\* A variant of the two loops in which the cursor is looked up with
\* self.guids.get(platform) and the test of an item is
\* `item.find('guid').text in self.guids[platform]`: then parse returns
\* records instead of raising.
RECURSIVE ItemLoopByText(_, _, _, _)
ItemLoopByText(nodes, j, cur, items) ==
    IF j > Len(nodes)
    THEN [exc |-> "", cur |-> cur, items |-> items]
    ELSE LET item == nodes[j]
             seen == IF IsNone(find(item, "guid"))
                     THEN Raise("AttributeError")
                     ELSE In(find(item, "guid").text, cur)
         IN  IF seen.kind = "raise"
             THEN [exc |-> seen.exc, cur |-> cur, items |-> items]
             ELSE IF seen.val
                  THEN ItemLoopByText(nodes, j + 1, cur, items)
                  ELSE ItemLoopByText(nodes, j + 1, Extract(item).guid,
                                      Append(items, Extract(item)))

RECURSIVE ParseLoopByText(_, _, _, _)
ParseLoopByText(raws, i, g, tmp_data) ==
    IF i > Len(raws)
    THEN [exc |-> "", guids |-> g, tmp_data |-> tmp_data]
    ELSE LET platform == raws[i][1]
             raw == raws[i][2]
             g1 == IF ~HasKey(g, platform) THEN SetItem(g, platform, EmptyStr) ELSE g
             root == fromstring(raw)
         IN  IF root.kind = "raise"
             THEN [exc |-> root.exc, guids |-> g1, tmp_data |-> tmp_data]
             ELSE LET r == ItemLoopByText(findall(root.val), 1,
                                          GetItem(g1, platform), <<>>)
                      g2 == SetItem(g1, platform, r.cur)
                  IN  IF r.exc # ""
                      THEN [exc |-> r.exc, guids |-> g2, tmp_data |-> tmp_data]
                      ELSE ParseLoopByText(raws, i + 1, g2,
                                           SetItem(tmp_data, platform, List(r.items)))

\* The outer loop of parse from position i of data_raw, with g the pairs of
\* self.guids (mutated in place, so kept when an exception ends the call)
\* and tmp_data the result so far.
RECURSIVE ParseLoop(_, _, _, _)
ParseLoop(raws, i, g, tmp_data) ==
    IF i > Len(raws)
    THEN [exc |-> "", guids |-> g, tmp_data |-> tmp_data]
    ELSE LET platform == raws[i][1]
             raw == raws[i][2]
             looked == CallGuids(g, platform)
         IN  IF looked.kind = "raise"
             THEN [exc |-> looked.exc, guids |-> g, tmp_data |-> tmp_data]
             ELSE LET g1 == IF IsNone(looked.val)
                            THEN SetItem(g, platform, EmptyStr) ELSE g
                      root == fromstring(raw)
                  IN  IF root.kind = "raise"
                      THEN [exc |-> root.exc, guids |-> g1, tmp_data |-> tmp_data]
                      ELSE LET r == ItemLoop(findall(root.val), 1,
                                             GetItem(g1, platform), <<>>)
                               g2 == SetItem(g1, platform, r.cur)
                           IN  IF r.exc # ""
                               THEN [exc |-> r.exc, guids |-> g2, tmp_data |-> tmp_data]
                               ELSE ParseLoop(raws, i + 1, g2,
                                              SetItem(tmp_data, platform, List(r.items)))

\* parse() on an object with fields self_data_raw, self_guids, self_data.
\* Result: the call's outcome and the new guids and data.
parse(self_data_raw, self_guids, self_data) ==
    IF IsNone(self_data_raw) \/ Len(self_data_raw.d) = 0
    THEN [out |-> Return(NoneV), guids |-> self_guids, data |-> self_data]
    ELSE LET r == ParseLoop(self_data_raw.d, 1, self_guids.d, <<>>)
         IN  IF r.exc # ""
             THEN [out |-> Raise(r.exc), guids |-> Dict(r.guids), data |-> self_data]
             ELSE [out |-> Return(Dict(r.tmp_data)), guids |-> Dict(r.guids),
                   data |-> Dict(r.tmp_data)]

\* ------------------------------------------------------- update and export
\* A variant of update that assigns both fields whatever the arguments are
updateAlways(self_rss_source, self_target, new_source, new_target) ==
    [rss_source |-> new_source, target |-> new_target]

\* update(rss_source, target): the new (rss_source, target) fields
update(self_rss_source, self_target, new_source, new_target) ==
    [rss_source |-> IF ~IsNone(new_source) THEN new_source ELSE self_rss_source,
     target |-> IF ~IsNone(new_target) THEN new_target ELSE self_target]

\* A variant of export that ignores its flags and returns all four fields
exportAll(self, f_data, f_rss_source, f_target, f_guids) ==
    Dict(<< <<"data", self.data>>, <<"rss_source", self.rss_source>>,
            <<"target", self.target>>, <<"guids", self.guids>> >>)

\* export(data, rss_source, target, guids): the returned dict, one entry per
\* flag that is set, holding the field of the object self
export(self, f_data, f_rss_source, f_target, f_guids) ==
    Dict((IF f_data THEN << <<"data", self.data>> >> ELSE <<>>)
         \o (IF f_rss_source THEN << <<"rss_source", self.rss_source>> >> ELSE <<>>)
         \o (IF f_target THEN << <<"target", self.target>> >> ELSE <<>>)
         \o (IF f_guids THEN << <<"guids", self.guids>> >> ELSE <<>>))

\* ------------------------------------------------------------------- state
VARIABLES
    rss_source,   \* self.rss_source: None or a dict platform -> URL
    target,       \* self.target: None or an opaque dict
    guids,        \* self.guids: dict platform -> latest guid
    data_raw,     \* self.data_raw: None or a dict platform -> response body
    data,         \* self.data: None or a dict platform -> list of records
    op,           \* the last method called ("init" after construction)
    ret,          \* how that call ended: the value returned or the exception
    src,          \* the mapping the last call iterated over, if it was a fetch
    reqs,         \* the requests the last call made, in order, with outcomes
    args,         \* the arguments of the last call, if an update or an export
    before,       \* self.guids as it was when the last parse call started
    parses,       \* parse calls made on the current data_raw (capped at 2)
    cycles,       \* parse calls made in all (capped at 2)
    feed,         \* per platform, the items its feed serves, in document order
    inOrder,      \* per platform, the feed has only ever gained items in front
    shown,        \* per platform, the guids of the payloads fetched so far
    fresh,        \* per platform, the guids first fetched by the last fetch
    once,         \* per platform, the guids some parse call has returned
    twice,        \* per platform, the guids two parse calls have returned
    wasCursor,    \* per platform, the cursors held when a parse call before
                  \* the last one ended
    other,        \* the fields of a second RSSapi object, if there is one
    on            \* the object of the last call: "self" or "other"

prog == <<rss_source, target, guids, data_raw, data>>
call == <<op, ret, src, reqs, args>>
hist == <<before, parses, cycles, feed, inOrder, shown, fresh, once, twice, wasCursor>>
peer == <<other, on>>
vars == <<prog, call, hist, peer>>

self == [rss_source |-> rss_source, target |-> target, guids |-> guids,
         data_raw |-> data_raw, data |-> data]

\* ------------------------------------------------------------------ inputs
On(p) == <<p, UrlOf[p]>>
Off(p) == <<p, "">>
SourceDicts ==
    {<<>>, <<On("feedA")>>, <<Off("feedA")>>, <<On("feedA"), On("feedB")>>,
     <<Off("feedA"), On("feedB")>>, <<On("feedB"), On("feedA")>>}
SourceArgs == {NoneV} \cup {Dict(d) : d \in SourceDicts}
BothOn == {Dict(<<On("feedA"), On("feedB")>>), Dict(<<On("feedB"), On("feedA")>>)}
Targets == {Dict(<< <<"qq", "group1">> >>)}
TargetArgs == {NoneV} \cup Targets
\* the cursor store handed to the constructor: the default {}, or one
\* reloaded from storage
ApiGuidSeeds == {EmptyDict, Dict(<< <<"feedA", Text("guid", 1)>> >>)}
GuidSeeds == ApiGuidSeeds \cup {Dict(<< <<"feedA", EmptyStr>> >>)}

\* the cursor of each platform in a guids dict, as a set (empty if no entry)
Cursors(g) == [p \in Platforms |-> IF HasKey(g.d, p) THEN {GetItem(g.d, p)} ELSE {}]
\* the guids of the records a parse call returned for platform p
Emitted(out, p) ==
    IF out.kind = "return" /\ ~IsNone(out.val) /\ HasKey(out.val.d, p)
    THEN {GetItem(out.val.d, p).l[i].guid : i \in DOMAIN GetItem(out.val.d, p).l}
    ELSE {}
\* the guid texts of the <item> nodes of platform p in a data_raw value
Payload(raw, p) ==
    IF ~IsNone(raw) /\ HasKey(raw.d, p) /\ GetItem(raw.d, p).wf
    THEN {Extract(GetItem(raw.d, p).items[i]).guid : i \in DOMAIN GetItem(raw.d, p).items}
    ELSE {}

\* no feed has published anything
NoFeed == [p \in Platforms |-> <<>>]

\* there is one RSSapi object only
NoOther == [t |-> "None"]
Alone == other = NoOther /\ on = "self"

\* __init__(rss_source, target, guids)
Construct(s, t, g) ==
    /\ rss_source = s
    /\ target = t
    /\ guids = g
    /\ data_raw = NoneV
    /\ data = NoneV
    /\ op = "init"
    /\ ret = Return(NoneV)
    /\ src = NoneV
    /\ reqs = <<>>
    /\ args = <<>>
    /\ before = g
    /\ parses = 0
    /\ cycles = 0
    /\ inOrder = [p \in Platforms |-> TRUE]
    /\ shown = [p \in Platforms |-> {}]
    /\ fresh = [p \in Platforms |-> {}]
    /\ once = [p \in Platforms |-> {}]
    /\ twice = [p \in Platforms |-> {}]
    /\ wasCursor = [p \in Platforms |-> {}]

\* ------------------------------------------------------------ method calls
\* the log entry of a request: which URL, and how the request ended
Outcome(r) == IF r.kind = "raise" THEN "raise" ELSE ToString(r.status_code)
Log(urls, net) == [i \in DOMAIN urls |-> <<urls[i], Outcome(net[urls[i]])>>]

\* the URLs a fetch call with argument arg may request
Enabled(arg) ==
    LET m == IF IsNone(arg) THEN rss_source ELSE arg
    IN  IF IsNone(m) THEN {} ELSE {m.d[i][2] : i \in DOMAIN m.d} \ {""}

\* A variant of the fetch call that keeps an explicit argument as the registry
FetchCallStoring(arg, net) ==
    LET r == fetch(rss_source, data_raw, arg, net)
    IN  /\ data_raw' = r.data_raw
        /\ op' = "fetch"
        /\ ret' = r.out
        /\ src' = IF IsNone(arg) THEN rss_source ELSE arg
        /\ reqs' = Log(r.reqs, net)
        /\ args' = <<>>
        /\ rss_source' = IF IsNone(arg) THEN rss_source ELSE arg
        /\ UNCHANGED <<target, guids, data>>

\* a call of fetch(arg) while the network behaves as net
FetchCall(arg, net) ==
    LET r == fetch(rss_source, data_raw, arg, net)
    IN  /\ data_raw' = r.data_raw
        /\ op' = "fetch"
        /\ ret' = r.out
        /\ src' = IF IsNone(arg) THEN rss_source ELSE arg
        /\ reqs' = Log(r.reqs, net)
        /\ args' = <<>>
        /\ UNCHANGED <<rss_source, target, guids, data>>

\* a call of parse()
ParseCall ==
    LET r == parse(data_raw, guids, data)
    IN  /\ guids' = r.guids
        /\ data' = r.data
        /\ op' = "parse"
        /\ ret' = r.out
        /\ src' = NoneV
        /\ reqs' = <<>>
        /\ args' = <<>>
        /\ UNCHANGED <<rss_source, target, data_raw>>

\* a call of update(s, t)
UpdateCall(s, t) ==
    LET r == update(rss_source, target, s, t)
    IN  /\ rss_source' = r.rss_source
        /\ target' = r.target
        /\ op' = "update"
        /\ ret' = Return(NoneV)
        /\ src' = NoneV
        /\ reqs' = <<>>
        /\ args' = <<s, t>>
        /\ UNCHANGED <<guids, data_raw, data>>

\* a call of export(data, rss_source, target, guids)
ExportCall(f_data, f_rss_source, f_target, f_guids) ==
    /\ op' = "export"
    /\ ret' = Return(export(self, f_data, f_rss_source, f_target, f_guids))
    /\ src' = NoneV
    /\ reqs' = <<>>
    /\ args' = <<f_data, f_rss_source, f_target, f_guids>>
    /\ UNCHANGED prog

\* ----------------------------------------------- the interface as a whole
\* Any caller: any construction, then any calls in any order, against a
\* network that answers each request in any way.
Init ==
    \E s \in SourceArgs, t \in TargetArgs, g \in ApiGuidSeeds :
        Construct(s, t, g) /\ feed = NoFeed /\ Alone

Fetch ==
    \E arg \in SourceArgs :
        \E net \in [Enabled(arg) -> Responses(ApiDocs)] :
            FetchCall(arg, net) /\ UNCHANGED <<hist, peer>>

Parse == ParseCall /\ UNCHANGED <<hist, peer>>

Update == \E s \in SourceArgs, t \in TargetArgs : UpdateCall(s, t) /\ UNCHANGED <<hist, peer>>

Export ==
    \E f_data, f_rss_source, f_target, f_guids \in BOOLEAN :
        ExportCall(f_data, f_rss_source, f_target, f_guids) /\ UNCHANGED <<hist, peer>>

Next == Fetch \/ Parse \/ Update \/ Export

Spec == Init /\ [][Next]_vars

\* --------------------------------------------- parsing fetched documents
\* Both platforms enabled; every request is answered 200 with some document
\* of Docs; parse may be called again and again on the same data_raw.
InitParse ==
    \E s \in BothOn, g \in GuidSeeds : Construct(s, NoneV, g) /\ feed = NoFeed /\ Alone

FetchAll ==
    \E net \in [Urls -> {Response(200, d) : d \in Docs}] :
        /\ FetchCall(NoneV, net)
        /\ parses' = 0
        /\ UNCHANGED <<before, cycles, feed, inOrder, shown, fresh, once, twice, wasCursor>>
        /\ UNCHANGED peer

Reparse ==
    /\ ParseCall
    /\ before' = guids
    /\ parses' = IF parses < 2 THEN parses + 1 ELSE parses
    /\ UNCHANGED <<cycles, feed, inOrder, shown, fresh, once, twice, wasCursor, peer>>

NextParse == FetchAll \/ Reparse

SpecParse == InitParse /\ [][NextParse]_vars

\* --------------------------------------------------------- polling cycles
\* The feed of feedA publishes items 1, 2, ... at its front (newest first)
\* and may at some point serve them in reverse order; the feed of feedB
\* serves one item throughout.  The caller polls: fetch(), then parse(),
\* again and again.  A request is answered 200 with the feed as it is, or
\* 503, or not at all.
FeedDoc(p) == WellFormed([i \in DOMAIN feed[p] |-> XmlItem(feed[p][i])])
Reversed(q) == [i \in DOMAIN q |-> q[Len(q) + 1 - i]]

Growing == {"feedA"}

InitCycle ==
    \E s \in BothOn, g \in GuidSeeds :
        /\ Construct(s, NoneV, g)
        /\ feed = [p \in Platforms |-> IF p \in Growing THEN <<>> ELSE <<1>>]
        /\ Alone

Publish ==
    \E p \in Growing :
        /\ Len(feed[p]) < MaxFeed
        /\ feed' = [feed EXCEPT ![p] = <<Len(feed[p]) + 1>> \o feed[p]]
        /\ UNCHANGED <<prog, call, before, parses, cycles, inOrder, shown, fresh,
                       once, twice, wasCursor, peer>>

Reverse ==
    \E p \in Growing :
        /\ Len(feed[p]) >= 2
        /\ feed' = [feed EXCEPT ![p] = Reversed(feed[p])]
        /\ inOrder' = [inOrder EXCEPT ![p] = FALSE]
        /\ UNCHANGED <<prog, call, before, parses, cycles, shown, fresh,
                       once, twice, wasCursor, peer>>

Answers(p) == {Response(200, FeedDoc(p)), Response(503, ErrorBody), TransportError}

CycleFetch ==
    /\ op \in {"init", "parse"}
    /\ \E net \in [Urls -> UNION {Answers(p) : p \in Platforms}] :
        /\ \A p \in Platforms : net[UrlOf[p]] \in Answers(p)
        /\ FetchCall(NoneV, net)
        /\ LET r == fetch(rss_source, data_raw, NoneV, net)
               got == r.out.kind = "return" /\ ~IsNone(r.out.val)
           IN  /\ parses' = IF got THEN 0 ELSE parses
               /\ shown' = [p \in Platforms |->
                              IF got THEN shown[p] \cup Payload(r.data_raw, p)
                              ELSE shown[p]]
               /\ fresh' = [p \in Platforms |->
                              IF got THEN Payload(r.data_raw, p) \ shown[p] ELSE {}]
    /\ UNCHANGED <<before, cycles, feed, inOrder, once, twice, wasCursor, peer>>

CycleParse ==
    /\ op = "fetch"
    /\ ParseCall
    /\ LET r == parse(data_raw, guids, data)
       IN  /\ once' = [p \in Platforms |-> once[p] \cup Emitted(r.out, p)]
           /\ twice' = [p \in Platforms |->
                          twice[p] \cup (once[p] \cap Emitted(r.out, p))]
    /\ before' = guids
    /\ parses' = IF parses < 2 THEN parses + 1 ELSE parses
    /\ cycles' = IF cycles < 2 THEN cycles + 1 ELSE cycles
    /\ wasCursor' = [p \in Platforms |->
                       IF cycles > 0 THEN wasCursor[p] \cup Cursors(guids)[p]
                       ELSE wasCursor[p]]
    /\ UNCHANGED <<feed, inOrder, shown, fresh, peer>>

NextCycle == Publish \/ Reverse \/ CycleFetch \/ CycleParse

SpecCycle == InitCycle /\ [][NextCycle]_vars

\* ------------------------------------------------------------ two objects
\* Two RSSapi objects, both constructed without a guids argument.  The
\* default value {} of the parameter is one dict, made when the def
\* statement runs, and each such object keeps a reference to it: an entry
\* written through the guids of one object is an entry of the guids of the
\* other.  The variables rss_source .. data are the first object, the
\* record other is the second, and on tells which one the last call was
\* made on.
DefaultGuids == EmptyDict

InitTwo ==
    \E s \in BothOn, s2 \in BothOn :
        /\ Construct(s, NoneV, DefaultGuids)
        /\ feed = NoFeed
        /\ other = [rss_source |-> s2, target |-> NoneV, guids |-> DefaultGuids,
                    data_raw |-> NoneV, data |-> NoneV]
        /\ on = "self"

FetchSelf ==
    \E net \in [Urls -> Responses(ApiDocs)] :
        /\ FetchCall(NoneV, net)
        /\ on' = "self"
        /\ UNCHANGED <<other, hist>>

ParseSelf ==
    /\ ParseCall
    /\ other' = [other EXCEPT !.guids = guids']
    /\ on' = "self"
    /\ UNCHANGED hist

FetchOther ==
    \E net \in [Urls -> Responses(ApiDocs)] :
        LET r == fetch(other.rss_source, other.data_raw, NoneV, net)
        IN  /\ other' = [other EXCEPT !.data_raw = r.data_raw]
            /\ op' = "fetch"
            /\ ret' = r.out
            /\ src' = other.rss_source
            /\ reqs' = Log(r.reqs, net)
            /\ args' = <<>>
            /\ on' = "other"
            /\ UNCHANGED <<prog, hist>>

ParseOther ==
    LET r == parse(other.data_raw, other.guids, other.data)
    IN  /\ other' = [other EXCEPT !.guids = r.guids, !.data = r.data]
        /\ guids' = r.guids
        /\ op' = "parse"
        /\ ret' = r.out
        /\ src' = NoneV
        /\ reqs' = <<>>
        /\ args' = <<>>
        /\ on' = "other"
        /\ UNCHANGED <<rss_source, target, data_raw, data, hist>>

NextTwo == FetchSelf \/ ParseSelf \/ FetchOther \/ ParseOther

SpecTwo == InitTwo /\ [][NextTwo]_vars

\* ------------------------------------------------------------ properties
\* the pairs of a dict-valued variable, none for None
Pairs(x) == IF IsNone(x) THEN <<>> ELSE x.d
\* the document of platform p in data_raw
RawOf(p) == GetItem(data_raw.d, p)
\* the record a null-safe extraction gives for an <item> node
Expected(item) ==
    [f \in Fields |-> IF item[f].t = "Absent" THEN EmptyStr ELSE item[f]]
ExpectedAll(doc) == List([i \in DOMAIN doc.items |-> Expected(doc.items[i])])
\* the last parse call returned a dict
Returned == ret.kind = "return" /\ ~IsNone(ret.val)
\* the cursor of p was empty or absent when the last parse call started
NoCursor(p) == Cursors(before)[p] \subseteq {EmptyStr}

\* C1: Idempotent re-parse.  A second (or later) parse call on the same
\* data_raw, the cursor store being as the parse before left it, returns an
\* empty list of new items for every platform of data_raw.
C1_IdempotentReparse ==
    (/\ op = "parse"
     /\ parses = 2
     /\ Pairs(data_raw) # <<>>
     /\ \A p \in Keys(Pairs(data_raw)) : RawOf(p).wf)
        => /\ Returned
           /\ \A p \in Keys(data_raw.d) :
                HasKey(ret.val.d, p) /\ GetItem(ret.val.d, p) = List(<<>>)

\* C2: First parse of a source.  For a platform whose cursor is empty or
\* absent and whose document holds N >= 1 items with distinct guids, parse
\* returns all N records in document order and leaves the guid of the last
\* item as the platform's cursor.
C2_FirstParseReturnsAll ==
    \A p \in Platforms :
        (/\ op = "parse"
         /\ HasKey(Pairs(data_raw), p)
         /\ RawOf(p).wf
         /\ Len(RawOf(p).items) >= 1
         /\ NoCursor(p))
            => /\ Returned
               /\ HasKey(ret.val.d, p)
               /\ GetItem(ret.val.d, p) = ExpectedAll(RawOf(p))
               /\ HasKey(guids.d, p)
               /\ GetItem(guids.d, p) = Expected(RawOf(p).items[Len(RawOf(p).items)]).guid

\* C3: No duplicate emission across cycles.  For a platform whose feed lists
\* its items newest first with unique guids and has only gained items at
\* the front, no guid is in what two parse calls returned.
C3_NoDuplicateEmission ==
    \A p \in Platforms : inOrder[p] => twice[p] = {}

\* C3 witness: a second cycle has ended on a feed that gained an item at the
\* front since the first, so that its payload holds an item already fetched
\* and a new one.
C3_Witness ==
    /\ op = "parse"
    /\ cycles = 2
    /\ inOrder["feedA"]
    /\ fresh["feedA"] # {}
    /\ Payload(data_raw, "feedA") \ fresh["feedA"] # {}

\* C4: No missed emission.  For a platform whose feed has only gained items
\* at the front, the parse call of the first cycle whose payload holds an
\* item returns that item.
C4_NoMissedEmission ==
    \A p \in Platforms :
        (op = "parse" /\ inOrder[p]) => fresh[p] \subseteq Emitted(ret, p)

\* C5: Cursor invariant.  A guid that was a platform's cursor when a parse
\* call ended is not in what any later parse call returns for the platform,
\* whatever the later payloads hold and in whatever order.
C5_CursorNeverReemitted ==
    \A p \in Platforms :
        op = "parse" => Emitted(ret, p) \cap wasCursor[p] = {}

\* C5 witness: a parse call has ended on a payload, served in reverse order,
\* that holds the guid which was the cursor when an earlier parse call ended.
C5_Witness ==
    /\ op = "parse"
    /\ ~inOrder["feedA"]
    /\ Text("guid", 1) \in wasCursor["feedA"]
    /\ Text("guid", 1) \in Payload(data_raw, "feedA")

\* C6: Parse isolation.  When data_raw holds a platform with malformed XML
\* and a platform with well-formed XML, in either order, parse raises
\* nothing, returns no item for the malformed one and returns the items of
\* the well-formed one.
C6_ParseIsolation ==
    (/\ op = "parse"
     /\ \E a \in Keys(Pairs(data_raw)) : ~RawOf(a).wf
     /\ \E b \in Keys(Pairs(data_raw)) : RawOf(b).wf)
        => /\ Returned
           /\ \A p \in Keys(data_raw.d) :
                IF RawOf(p).wf
                THEN /\ HasKey(ret.val.d, p)
                     /\ \A i \in DOMAIN GetItem(ret.val.d, p).l :
                          \E j \in DOMAIN RawOf(p).items :
                              GetItem(ret.val.d, p).l[i] = Expected(RawOf(p).items[j])
                     /\ NoCursor(p) => GetItem(ret.val.d, p) = ExpectedAll(RawOf(p))
                ELSE HasKey(ret.val.d, p) => GetItem(ret.val.d, p) = List(<<>>)

\* the platforms whose request the last fetch call logged with outcome o
Answered(o) == {p \in Platforms : \E i \in DOMAIN reqs : reqs[i] = <<UrlOf[p], o>>}
\* the enabled platforms of the mapping the last fetch call iterated over
EnabledIn(m) == {m.d[i][1] : i \in {k \in DOMAIN m.d : m.d[k][2] # ""}}
\* what export(data=True) shows after a parse call made in this state
ShownAfterParse ==
    LET r == parse(data_raw, guids, data)
    IN  GetItem(export([self EXCEPT !.guids = r.guids, !.data = r.data],
                       TRUE, FALSE, FALSE, FALSE).d, "data")

\* C7: Fetch status isolation.  When one request of a fetch call is answered
\* with a failure status and the others with 200 and a well-formed
\* document, fetch raises nothing and
\* returns a dict whose keys are the platforms answered 200; the parse call
\* that follows returns, and export(data=True) then shows, the items of
\* those platforms only.
C7_FetchStatusIsolation ==
    (/\ op = "fetch"
     /\ Answered("503") # {}
     /\ Answered("200") # {}
     /\ Answered("raise") = {}
     /\ \A p \in Keys(Pairs(data_raw)) : RawOf(p).wf)
        => /\ Returned
           /\ Keys(ret.val.d) = Answered("200")
           /\ parse(data_raw, guids, data).out.kind = "return"
           /\ ~IsNone(ShownAfterParse)
           /\ Keys(ShownAfterParse.d) = Answered("200")

\* C8: Fetch transport isolation.  When a request of a fetch call fails with
\* a transport exception, the exception does not leave fetch, every other
\* enabled platform is still requested, and fetch returns the payloads of
\* those answered 200.
C8_FetchTransportIsolation ==
    (op = "fetch" /\ Answered("raise") # {})
        => /\ Returned
           /\ EnabledIn(src) = Answered("200") \cup Answered("503") \cup Answered("raise")
           /\ Keys(ret.val.d) = Answered("200")

\* C9: Disabled source skip.  After any fetch call, a platform the call's
\* mapping gives the URL "" was not requested, is no key of the dict
\* returned and is no key of data_raw.
C9_DisabledSourceSkipped ==
    (op = "fetch" /\ ~IsNone(src))
        => \A i \in DOMAIN src.d :
             src.d[i][2] = ""
                => /\ Len(reqs) <= Cardinality(EnabledIn(src))
                   /\ \A k \in DOMAIN reqs : reqs[k][1] # ""
                   /\ Returned => ~HasKey(ret.val.d, src.d[i][1])
                   /\ ~HasKey(Pairs(data_raw), src.d[i][1])

\* C10: Null-safe extraction.  When an item of a well-formed payload lacks
\* the node of a field (the guid node included), parse raises nothing, and
\* every record it returns has "" for the absent nodes of its item and the
\* node's text for the others; a platform without a cursor gets the record
\* of every item.
C10_NullSafeExtraction ==
    (/\ op = "parse"
     /\ Pairs(data_raw) # <<>>
     /\ \A p \in Keys(Pairs(data_raw)) : RawOf(p).wf
     /\ \E p \in Keys(Pairs(data_raw)) : \E j \in DOMAIN RawOf(p).items :
            \E f \in Fields : RawOf(p).items[j][f].t = "Absent")
        => /\ Returned
           /\ \A p \in Keys(data_raw.d) :
                /\ HasKey(ret.val.d, p)
                /\ \A i \in DOMAIN GetItem(ret.val.d, p).l :
                     \E j \in DOMAIN RawOf(p).items :
                         GetItem(ret.val.d, p).l[i] = Expected(RawOf(p).items[j])
                /\ NoCursor(p) => GetItem(ret.val.d, p) = ExpectedAll(RawOf(p))

\* C11: Nothing to do returns None.  A fetch call whose mapping (the
\* argument, or the registry when there is no argument) is absent or empty
\* returns None and raises nothing; so does a parse call made while
\* data_raw is None.
C11_NothingToDoReturnsNone ==
    /\ (op = "fetch" /\ Pairs(src) = <<>>) => (ret.kind = "return" /\ IsNone(ret.val))
    /\ (op = "parse" /\ IsNone(data_raw)) => (ret.kind = "return" /\ IsNone(ret.val))

\* C11 witness: fetch({}) has been called on an object whose registry is
\* not empty and which has not fetched anything yet.
C11_Witness ==
    /\ op = "fetch"
    /\ ~IsNone(src)
    /\ src.d = <<>>
    /\ Pairs(rss_source) # <<>>
    /\ IsNone(data_raw)

\* C12: update replaces wholesale, and only what is supplied.  An
\* update(s, t) call leaves the registry equal to s if s is not None and as
\* it was otherwise, the destination map equal to t if t is not None and as
\* it was otherwise, and leaves guids, data_raw and data as they were.
C12_UpdateReplacesWholesale ==
    [][op' = "update"
         => /\ rss_source' = (IF IsNone(args'[1]) THEN rss_source ELSE args'[1])
            /\ target' = (IF IsNone(args'[2]) THEN target ELSE args'[2])
            /\ guids' = guids
            /\ data_raw' = data_raw
            /\ data' = data]_vars

\* C12 witness: update(s, None) has replaced the registry of an object that
\* holds a destination map and a fetched snapshot.
C12_Witness ==
    /\ op = "update"
    /\ ~IsNone(args[1])
    /\ IsNone(args[2])
    /\ rss_source = args[1]
    /\ ~IsNone(target)
    /\ Pairs(data_raw) # <<>>

\* the keys an export call with the flags fl = <<data, rss_source, target,
\* guids>> is asked for
Asked(fl) ==
    {<<"data", "rss_source", "target", "guids">>[i] : i \in {k \in 1..4 : fl[k]}}

\* C13: export is a pure projection.  For every combination of the four
\* flags an export call returns a dict with exactly the keys whose flag is
\* true, each once and each mapped to the current value of that field, and
\* leaves rss_source, target, guids, data_raw and data as they were.
C13_ExportPureProjection ==
    [][op' = "export"
         => /\ UNCHANGED prog
            /\ ret'.kind = "return"
            /\ Keys(ret'.val.d) = Asked(args')
            /\ Len(ret'.val.d) = Cardinality(Asked(args'))
            /\ \A k \in Asked(args') : GetItem(ret'.val.d, k) = self'[k]]_vars

\* C13 witness: export(data=False, rss_source=True, target=False,
\* guids=True) has returned, on an object that holds a fetched snapshot and
\* a destination map.
C13_Witness ==
    /\ op = "export"
    /\ args = <<FALSE, TRUE, FALSE, TRUE>>
    /\ Keys(ret.val.d) = {"rss_source", "guids"}
    /\ Pairs(data_raw) # <<>>
    /\ ~IsNone(target)

\* the positions, in the document of platform p in data_raw, of the items
\* whose guid is the cursor p had when the last parse call started
Matches(p) ==
    {i \in DOMAIN RawOf(p).items :
        Cursors(before)[p] = {Extract(RawOf(p).items[i]).guid}}
First(S) == CHOOSE i \in S : \A j \in S : i <= j

\* C14: Exclusion at the first match.  When the document of a platform
\* holds an item whose guid is the platform's cursor at the start of the
\* parse call, parse returns for the platform a list that starts with the
\* records of the items before the first such item, in document order, and
\* that does not hold the guid of that item.
C14_ExclusionAtFirstMatch ==
    \A p \in Platforms :
        (/\ op = "parse"
         /\ HasKey(Pairs(data_raw), p)
         /\ RawOf(p).wf
         /\ Matches(p) # {})
            => /\ Returned
               /\ HasKey(ret.val.d, p)
               /\ LET k == First(Matches(p))
                      out == GetItem(ret.val.d, p).l
                  IN  /\ Len(out) >= k - 1
                      /\ \A i \in 1..(k - 1) : out[i] = Expected(RawOf(p).items[i])
                      /\ Expected(RawOf(p).items[k]).guid \notin Emitted(ret, p)

\* C15: Cursor entry for every parsed platform.  After a parse call on a
\* data_raw that is not empty and holds well-formed documents, guids has an
\* entry for every platform of data_raw; a platform that had no entry when
\* the call started and whose document has no item has the cursor ''.
C15_CursorEntryForEveryPlatform ==
    (/\ op = "parse"
     /\ Pairs(data_raw) # <<>>
     /\ \A p \in Keys(Pairs(data_raw)) : RawOf(p).wf)
        => \A p \in Keys(data_raw.d) :
             /\ HasKey(guids.d, p)
             /\ (Cursors(before)[p] = {} /\ RawOf(p).items = <<>>)
                    => GetItem(guids.d, p) = EmptyStr

\* C16: The raw snapshot is fully replaced by each fetch.  After any fetch
\* call that returns (a call that a transport exception ended is left
\* aside here), the platforms of data_raw are exactly the platforms whose
\* request was answered 200 in that call, so that no body of an earlier
\* fetch call is left in it.
C16_RawSnapshotReplaced ==
    (op = "fetch" /\ ret.kind = "return")
        => Keys(Pairs(data_raw)) = Answered("200")

\* C17: The parsed snapshot is fully replaced by each parse.  After any
\* parse call, data (what export(data=True) shows) holds for each platform
\* only records which that call returned; this includes the parse call of a
\* cycle in which every request failed.
C17_ParsedSnapshotReplaced ==
    \A p \in Platforms :
        op = "parse" => Emitted(Return(data), p) \subseteq Emitted(ret, p)

\* C17 witness: the parse call of a second cycle has ended, every request
\* of that cycle having been answered with a failure status, after an
\* earlier cycle fetched an item of feedB.
C17_Witness ==
    /\ op = "parse"
    /\ cycles = 2
    /\ data_raw = EmptyDict
    /\ shown["feedB"] # {}

\* C18: Configuration is only read by the pipeline.  A fetch call (with or
\* without an argument) and a parse call leave rss_source and target as
\* they were, a fetch call leaves guids and data as they were, and
\* rss_source or target change in an update call only.
C18_ConfigurationOnlyRead ==
    [][/\ op' \in {"fetch", "parse"} => (rss_source' = rss_source /\ target' = target)
       /\ op' = "fetch" => (guids' = guids /\ data' = data)
       /\ (rss_source' # rss_source \/ target' # target) => op' = "update"]_vars

\* C18 witness: fetch(arg) has returned a dict for an argument that is not
\* the registry, on an object that holds a registry and a destination map.
C18_Witness ==
    /\ op = "fetch"
    /\ ~IsNone(src)
    /\ ~IsNone(rss_source)
    /\ src # rss_source
    /\ ~IsNone(target)
    /\ ret.kind = "return"
    /\ Pairs(ret.val) # <<>>

\* the last parse call moved the cursor of p: it changed it otherwise than
\* by creating the entry '' for a platform that had none
Moved(p) ==
    /\ Cursors(guids)[p] # Cursors(before)[p]
    /\ ~(Cursors(before)[p] = {} /\ Cursors(guids)[p] = {EmptyStr})

\* C19: A cursor never advances past an item that was not delivered.  In
\* every parse call and for every platform, if the call moved the
\* platform's cursor then the guid it moved to is the guid of a record in
\* the returned result and in data; a parse call that ends with an
\* exception leaves guids as it was before the call.
C19_CursorNeverPastUndelivered ==
    op = "parse"
        => /\ ret.kind = "raise" => guids = before
           /\ \A p \in Platforms :
                Moved(p) => /\ Cursors(guids)[p] \subseteq Emitted(ret, p)
                            /\ Cursors(guids)[p] \subseteq Emitted(Return(data), p)

\* C19 witness: a parse call has ended with an exception on well-formed
\* documents of which feedA's holds an item whose guid is not feedA's cursor.
C19_Witness ==
    /\ op = "parse"
    /\ ret.kind = "raise"
    /\ \A p \in Keys(Pairs(data_raw)) : RawOf(p).wf
    /\ Payload(data_raw, "feedA") \ Cursors(before)["feedA"] # {}

\* what a parse call on an object with these fields would return or raise
WouldEmit(o) == parse(o.data_raw, o.guids, o.data).out

\* C20: Instances have independent cursor stores.  For two RSSapi objects
\* constructed without a guids argument, a fetch or parse call on one
\* leaves the guids of the other as it was and does not change what a
\* parse call on the other returns.
C20_IndependentCursorStores ==
    [][/\ on' = "self" => (other'.guids = other.guids /\ WouldEmit(other') = WouldEmit(other))
       /\ on' = "other" => (guids' = guids /\ WouldEmit(self') = WouldEmit(self))]_vars

\* C20 witness: a parse call on the first object has ended on a fetched
\* document with an item, while the second object holds a fetched document
\* with an item too.
C20_Witness ==
    /\ on = "self"
    /\ op = "parse"
    /\ Payload(data_raw, "feedA") # {}
    /\ Payload(other.data_raw, "feedA") # {}

====
